---- MODULE Spec2Model ----
(***************************************************************************)
(* bitaxe-cli (src/main.rs): one invocation of the command-line client.    *)
(* The invocation loads the optional config file, resolves the device      *)
(* address (CLI flag > BITAXE_URL > config file), builds the HTTP client,  *)
(* and runs exactly one of the two commands, status or restart.            *)
(*                                                                         *)
(* Option<T> values are records [some, val]; JSON values are records       *)
(* [t, repr, n, s]; printed lines are records of one shape, so that any    *)
(* two of them can be compared.  JSON numbers carry their value in         *)
(* thousandths (450.5 is 450500), with the serde_json representation       *)
(* (PosInt, NegInt, Float) beside it.                                      *)
(***************************************************************************)
EXTENDS Integers, Sequences, FiniteSets, TLC

VARIABLES
    cliHost,    \* Cli.host: Option<String>, the --host flag
    command,    \* Cli.command: "Status" or "Restart"
    envUrl,     \* the BITAXE_URL environment variable: Option<String>
    cfgFile,    \* what is on disk at ~/.config/bitaxe-cli/config.toml
    device,     \* how the network and the device answered the request
    pc,         \* position of main
    cfg,        \* AppConfig.host as main holds it: Option<String>
    host,       \* the resolved address bound at main.rs:45: Option<String>
    client,     \* TRUE once the reqwest client is built
    requests,   \* the requests handed to send(), in order
    resp,       \* the response held by the running command
    info,       \* the decoded serde_json::Value held by show_status
    stdout,     \* the lines printed so far
    err,        \* the error main returned, if any
    exit        \* process exit code; -1 while main is running

vars == <<cliHost, command, envUrl, cfgFile, device, pc, cfg, host, client,
          requests, resp, info, stdout, err, exit>>

inputs == <<cliHost, command, envUrl, cfgFile>>

----------------------------------------------------------------------------
(* Bounds *)

\* The largest number of members in a response document.
MaxMembers == 2

----------------------------------------------------------------------------
(* Option<String> *)

None == [some |-> FALSE, val |-> ""]

Some(s) == [some |-> TRUE, val |-> s]

----------------------------------------------------------------------------
(* serde_json::Value *)

JNull == [t |-> "Null", repr |-> "", n |-> 0, s |-> ""]

JBool == [t |-> "Bool", repr |-> "", n |-> 1, s |-> ""]

JArray == [t |-> "Array", repr |-> "", n |-> 0, s |-> ""]

JObject == [t |-> "Object", repr |-> "", n |-> 0, s |-> ""]

JFloat(n) == [t |-> "Number", repr |-> "Float", n |-> n, s |-> ""]

JInt(n) == [t |-> "Number", repr |-> IF n >= 0 THEN "PosInt" ELSE "NegInt", n |-> n, s |-> ""]

JString(s) == [t |-> "String", repr |-> "", n |-> 0, s |-> s]

NoValue == [some |-> FALSE, val |-> JNull]

NoNumber == [some |-> FALSE, val |-> 0]

\* Value::as_f64: every JSON number, whatever its representation.
as_f64(v) == IF v.t = "Number" THEN [some |-> TRUE, val |-> v.n] ELSE NoNumber

\* Value::as_i64: integers only (the values of the model fit an i64).
as_i64(v) == IF v.t = "Number" /\ v.repr \in {"PosInt", "NegInt"} THEN [some |-> TRUE, val |-> v.n] ELSE NoNumber

\* Value::as_u64: non-negative integers only.
as_u64(v) == IF v.t = "Number" /\ v.repr = "PosInt" THEN [some |-> TRUE, val |-> v.n] ELSE NoNumber

\* Value::as_str.
as_str(v) == IF v.t = "String" THEN Some(v.s) ELSE None

\* Option::or_else.
or_else(a, b) == IF a.some THEN a ELSE b

----------------------------------------------------------------------------
(* The config file and load_config *)

\* The states of the file system that load_config tells apart:
\*   nohome      neither HOME nor USERPROFILE is set (config_path is None)
\*   absent      the path does not exist
\*   unparsable  the file exists and is not valid TOML (build() fails)
\*   badshape    the file parses, and host is not a string (try_deserialize fails)
\*   nohost      the file parses and has no host field
\*   host        the file parses and host is the string cfgFile.host
CfgFile(state, h) == [state |-> state, host |-> h]

AppConfig(h) == [host |-> h]

Ok(v) == [ok |-> TRUE, val |-> v]

\* config_path: the path, when a home directory is known.
config_path(file) == file.state # "nohome"

\* builder.build(): fails when an added source does not parse.
build_ok(file) == ~(config_path(file) /\ file.state = "unparsable")

\* load_config: Err only when try_deserialize fails; a failed build() is
\* turned into an empty AppConfig by .ok().
load_config(file) ==
    IF build_ok(file)
    THEN IF config_path(file) /\ file.state = "badshape"
         THEN [ok |-> FALSE, val |-> AppConfig(None)]
         ELSE IF config_path(file) /\ file.state = "host"
              THEN Ok(AppConfig(Some(file.host)))
              ELSE Ok(AppConfig(None))
    ELSE Ok(AppConfig(None))

\* Result::unwrap_or.
unwrap_or(r, default) == IF r.ok THEN r.val ELSE default

----------------------------------------------------------------------------
(* Errors: the anyhow error main returns, named as in the error design. *)

NoError == [kind |-> "None", msg |-> <<>>, code |-> 0]

Error(kind, msg, code) == [kind |-> kind, msg |-> msg, code |-> code]

\* The words of the message of main.rs:103.
NoHostMessage == <<"No", "host", "configured", ".", "Use", "--host", ",", "set", "BITAXE_URL", ",", "or", "create", "~/.config/bitaxe-cli/config.toml">>

----------------------------------------------------------------------------
(* resolve_host *)

resolve_host_env_first(cli, env, c) ==
    IF env.some /\ env.val # "" THEN Ok(env.val)
    ELSE IF cli.some THEN Ok(cli.val)
    ELSE IF c.host.some THEN Ok(c.host.val)
    ELSE [ok |-> FALSE, val |-> ""]

resolve_host_file_first(cli, env, c) ==
    IF cli.some THEN Ok(cli.val)
    ELSE IF c.host.some THEN Ok(c.host.val)
    ELSE IF env.some /\ env.val # "" THEN Ok(env.val)
    ELSE [ok |-> FALSE, val |-> ""]

resolve_host_default(cli, env, c) ==
    IF cli.some THEN Ok(cli.val)
    ELSE IF env.some /\ env.val # "" THEN Ok(env.val)
    ELSE Ok(c.host.val)

\* resolve_host: CLI flag, then a non-empty BITAXE_URL, then the config file.
resolve_host(cli, env, c) ==
    IF cli.some THEN Ok(cli.val)
    ELSE IF env.some /\ env.val # "" THEN Ok(env.val)
    ELSE IF c.host.some THEN Ok(c.host.val)
    ELSE [ok |-> FALSE, val |-> ""]

----------------------------------------------------------------------------
(* The response body and its decoding *)

Member(k, v) == [key |-> k, val |-> v]

\* A response body: not JSON at all, or a JSON text whose root is an object
\* with the given members in the order of the text, or a root of another kind.
Body(valid, root, members) == [valid |-> valid, root |-> root, members |-> members]

NoInfo == [t |-> "Null", map |-> <<>>]

\* serde_json's Map::insert: a later member replaces an earlier one of the same key.
Insert(map, k, v) == [x \in (DOMAIN map) \cup {k} |-> IF x = k THEN v ELSE map[x]]

RECURSIVE ParseMembers(_, _, _)
ParseMembers(members, i, map) ==
    IF i > Len(members) THEN map
    ELSE ParseMembers(members, i + 1, Insert(map, members[i].key, members[i].val))

\* Response::json into serde_json::Value (the body is valid JSON).
json(body) ==
    IF body.root = "Object"
    THEN [t |-> "Object", map |-> ParseMembers(body.members, 1, <<>>)]
    ELSE [t |-> body.root, map |-> <<>>]

\* Value::get(key): None unless the value is an object that has the key.
get(root, key) ==
    IF root.t = "Object" /\ key \in DOMAIN root.map
    THEN [some |-> TRUE, val |-> root.map[key]]
    ELSE NoValue

----------------------------------------------------------------------------
(* get_number, get_str, get_any_as_string *)

get_number(root, key) ==
    LET v == get(root, key)
    IN  IF v.some
        THEN or_else(or_else(as_f64(v.val), as_i64(v.val)), as_u64(v.val))
        ELSE NoNumber

get_str_lenient(root, key) ==
    LET v == get(root, key)
    IN  IF v.some THEN Some(v.val.s) ELSE None

get_str(root, key) ==
    LET v == get(root, key)
    IN  IF v.some THEN as_str(v.val) ELSE None

\* The text of a value: a string verbatim, or a number through Display.
Text(fmt, s, n) == [fmt |-> fmt, s |-> s, n |-> n]

NoText == [some |-> FALSE, val |-> Text("", "", 0)]

SomeText(x) == [some |-> TRUE, val |-> x]

get_any_as_string(root, key) ==
    LET v == get(root, key)
    IN  IF ~v.some THEN NoText
        ELSE IF as_str(v.val).some THEN SomeText(Text("verbatim", as_str(v.val).val, 0))
        ELSE IF as_f64(v.val).some THEN SomeText(Text("display_f64", "", as_f64(v.val).val))
        ELSE IF as_i64(v.val).some THEN SomeText(Text("display_i64", "", as_i64(v.val).val))
        ELSE IF as_u64(v.val).some THEN SomeText(Text("display_u64", "", as_u64(v.val).val))
        ELSE NoText

----------------------------------------------------------------------------
(* show_status: the printed lines *)

Line(key, label, fmt, str, n, div, unit) ==
    [key |-> key, label |-> label, fmt |-> fmt, s |-> str, n |-> n, div |-> div, unit |-> unit]

\* main.rs:142
Header == Line("", "=== Bitaxe System Info ===", "literal", "", 0, 1, "")

\* main.rs:212
Confirmation == Line("", "Restart command sent successfully.", "literal", "", 0, 1, "")

Field(key, getter, label, fmt, div, unit) ==
    [key |-> key, get |-> getter, label |-> label, fmt |-> fmt, div |-> div, unit |-> unit]

FieldsWifiFirst ==
    << Field("wifiStatus", "str", "WiFi Status", "verbatim", 1, ""),
       Field("hostname", "str", "Hostname", "verbatim", 1, ""),
       Field("hashRate", "number", "Hashrate", "fixed2", 1, "GH/s"),
       Field("bestDiff", "any", "Best Diff", "verbatim", 1, ""),
       Field("bestSessionDiff", "any", "Best Session", "verbatim", 1, ""),
       Field("sharesAccepted", "number", "Shares Accepted", "fixed0", 1, ""),
       Field("sharesRejected", "number", "Shares Rejected", "fixed0", 1, ""),
       Field("temp", "number", "Core Temp", "fixed1", 1, "°C"),
       Field("vrTemp", "number", "VR Temp", "fixed1", 1, "°C"),
       Field("power", "number", "Power", "fixed2", 1, "W"),
       Field("voltage", "number", "PSU Voltage", "fixed2", 1000, "V"),
       Field("frequency", "number", "Frequency", "fixed0", 1, "MHz"),
       Field("coreVoltage", "number", "Core V (set)", "fixed0", 1, "mV"),
       Field("coreVoltageActual", "number", "Core V (actual)", "fixed0", 1, "mV"),
       Field("wifiRSSI", "number", "WiFi RSSI", "fixed0", 1, "dBm") >>

\* The fifteen `if let Some(..) = get_..(&info, key) { println!(..) }` of
\* show_status, in the order of the code: the key, the getter, the label, the
\* precision of the format, the divisor applied first, and the unit.
Fields ==
    << Field("hostname", "str", "Hostname", "verbatim", 1, ""),
       Field("hashRate", "number", "Hashrate", "fixed2", 1, "GH/s"),
       Field("bestDiff", "any", "Best Diff", "verbatim", 1, ""),
       Field("bestSessionDiff", "any", "Best Session", "verbatim", 1, ""),
       Field("sharesAccepted", "number", "Shares Accepted", "fixed0", 1, ""),
       Field("sharesRejected", "number", "Shares Rejected", "fixed0", 1, ""),
       Field("temp", "number", "Core Temp", "fixed1", 1, "°C"),
       Field("vrTemp", "number", "VR Temp", "fixed1", 1, "°C"),
       Field("power", "number", "Power", "fixed2", 1, "W"),
       Field("voltage", "number", "PSU Voltage", "fixed2", 1000, "V"),
       Field("frequency", "number", "Frequency", "fixed0", 1, "MHz"),
       Field("coreVoltage", "number", "Core V (set)", "fixed0", 1, "mV"),
       Field("coreVoltageActual", "number", "Core V (actual)", "fixed0", 1, "mV"),
       Field("wifiRSSI", "number", "WiFi RSSI", "fixed0", 1, "dBm"),
       Field("wifiStatus", "str", "WiFi Status", "verbatim", 1, "") >>

\* One `if let`: the line it prints, or nothing.
FieldLines(root, f) ==
    IF f.get = "str"
    THEN LET r == get_str(root, f.key)
         IN  IF r.some THEN <<Line(f.key, f.label, "verbatim", r.val, 0, f.div, f.unit)>> ELSE <<>>
    ELSE IF f.get = "number"
    THEN LET r == get_number(root, f.key)
         IN  IF r.some THEN <<Line(f.key, f.label, f.fmt, "", r.val, f.div, f.unit)>> ELSE <<>>
    ELSE LET r == get_any_as_string(root, f.key)
         IN  IF r.some THEN <<Line(f.key, f.label, r.val.fmt, r.val.s, r.val.n, f.div, f.unit)>> ELSE <<>>

RECURSIVE PrintFields(_, _, _)
PrintFields(root, i, out) ==
    IF i > Len(Fields) THEN out
    ELSE PrintFields(root, i + 1, out \o FieldLines(root, Fields[i]))

\* Everything show_status prints once the body is decoded (main.rs:142-201).
StatusOutput(root) == PrintFields(root, 1, <<Header>>)

----------------------------------------------------------------------------
(* HTTP *)

Request(method, url) == [method |-> method, url |-> url]

NoResponse == [some |-> FALSE, status |-> 0, body |-> Body(FALSE, "Null", <<>>)]

\* StatusCode::is_success: 200 to 299.
is_success(status) == status >= 200 /\ status <= 299

\* Returning from main: Ok(()) exits 0, an Err exits 1.
Return(e) ==
    /\ pc' = "done"
    /\ err' = e
    /\ exit' = IF e.kind = "None" THEN 0 ELSE 1

----------------------------------------------------------------------------
(* The inputs of an invocation *)

CliHosts == {None, Some(""), Some("http://cli")}

EnvUrls == {None, Some(""), Some("http://env")}

CfgFiles ==
    {CfgFile(st, "") : st \in {"nohome", "absent", "unparsable", "badshape", "nohost"}}
    \cup {CfgFile("host", h) : h \in {"", "http://file"}}

Commands == {"Status", "Restart"}

Statuses == {200, 204, 404, 503}

Device(reach, status, body) == [reach |-> reach, status |-> status, body |-> body]

NotJson == Body(FALSE, "Null", <<>>)

Document(members) == Body(TRUE, "Object", members)

\* Response bodies of the two commands: not JSON, the empty object, the
\* document {"hashRate": 450.5, "temp": 60}, the same in the other key order,
\* documents whose values are of the wrong kinds, and roots that are not objects.
SampleBodies ==
    { NotJson,
      Document(<<>>),
      Document(<<Member("hashRate", JFloat(450500)), Member("temp", JInt(60000))>>),
      Document(<<Member("temp", JInt(60000)), Member("hashRate", JFloat(450500))>>),
      Document(<<Member("hostname", JInt(5000)), Member("hashRate", JString("fast"))>>),
      Document(<<Member("bestDiff", JBool), Member("bestSessionDiff", JArray)>>),
      Document(<<Member("bestDiff", JNull), Member("bestSessionDiff", JObject)>>),
      Document(<<Member("wifiRSSI", JInt(-61000)), Member("wifiStatus", JBool)>>) }
    \cup {Body(TRUE, r, <<>>) : r \in {"Null", "Bool", "Number", "String", "Array"}}

SampleDevices ==
    {Device(FALSE, 0, NotJson)}
    \cup {Device(TRUE, st, b) : st \in Statuses, b \in SampleBodies}

\* The keys a document may hold: the fifteen the client reads and one it does not.
Keys == {Fields[i].key : i \in 1..Len(Fields)} \cup {"uptimeSeconds"}

\* The values a member may hold.
Values == {JFloat(450500), JInt(60000), JString("up"), JNull, JBool, JArray}

Members == {Member(k, v) : k \in Keys, v \in Values}

----------------------------------------------------------------------------
(* main *)

\* main.rs:43: let cfg = load_config().unwrap_or(AppConfig { host: None });
LoadConfig ==
    /\ pc = "load_config"
    /\ cfg' = unwrap_or(load_config(cfgFile), AppConfig(None))
    /\ pc' = "resolve_host"
    /\ UNCHANGED <<inputs, device, host, client, requests, resp, info, stdout, err, exit>>

\* main.rs:45: let host = resolve_host(&cli, &cfg)?;
ResolveHost ==
    /\ pc = "resolve_host"
    /\ LET r == resolve_host(cliHost, envUrl, cfg)
       IN  IF r.ok
           THEN /\ host' = Some(r.val)
                /\ pc' = "build_client"
                /\ UNCHANGED <<err, exit>>
           ELSE /\ Return(Error("NoHostConfigured", NoHostMessage, 0))
                /\ UNCHANGED host
    /\ UNCHANGED <<inputs, device, cfg, client, requests, resp, info, stdout>>

\* main.rs:46-48: Client::builder().timeout(..).build()?  The build fails
\* when the TLS backend or the system resolver cannot be initialised.
BuildClient ==
    /\ pc = "build_client"
    /\ \/ /\ client' = TRUE
          /\ pc' = "dispatch"
          /\ UNCHANGED <<err, exit>>
       \/ /\ Return(Error("ClientBuildFailure", <<>>, 0))
          /\ UNCHANGED client
    /\ UNCHANGED <<inputs, device, cfg, host, requests, resp, info, stdout>>

\* main.rs:134-135: client.get(&url).send()? when the answer is d.
StatusSendAnswer(d) ==
    /\ requests' = Append(requests, Request("GET", host.val \o "/api/system/info"))
    /\ device' = d
    /\ IF d.reach
       THEN /\ resp' = [some |-> TRUE, status |-> d.status, body |-> d.body]
            /\ pc' = "status_check"
            /\ UNCHANGED <<err, exit>>
       ELSE /\ Return(Error("TransportFailure", <<>>, 0))
            /\ UNCHANGED resp
    /\ UNCHANGED <<inputs, cfg, host, client, info, stdout>>

\* show_status up to send(), against the sample answers.
StatusSend ==
    /\ pc = "dispatch"
    /\ command = "Status"
    /\ \E d \in SampleDevices : StatusSendAnswer(d)

\* show_status up to send(), against the sample answers and against a 200
\* with any JSON object of at most MaxMembers members, in every order of the
\* text (a key may repeat).
StatusSendDoc ==
    /\ pc = "dispatch"
    /\ command = "Status"
    /\ \/ \E d \in SampleDevices : StatusSendAnswer(d)
       \/ \E n \in 0..MaxMembers : \E m \in [1..n -> Members] :
             StatusSendAnswer(Device(TRUE, 200, Document(m)))

\* main.rs:136-138: bail on a status that is not a success.
StatusCheck ==
    /\ pc = "status_check"
    /\ IF ~is_success(resp.status)
       THEN Return(Error("HttpStatusFailure", <<"Request", "failed", "with", "status">>, resp.status))
       ELSE /\ pc' = "status_json"
            /\ UNCHANGED <<err, exit>>
    /\ UNCHANGED <<inputs, device, cfg, host, client, requests, resp, info, stdout>>

StatusJsonHeaderFirst ==
    /\ pc = "status_json"
    /\ stdout' = Append(stdout, Header)
    /\ IF resp.body.valid
       THEN /\ info' = json(resp.body)
            /\ pc' = "status_print"
            /\ UNCHANGED <<err, exit>>
       ELSE /\ Return(Error("ResponseDecodeFailure", <<>>, 0))
            /\ UNCHANGED info
    /\ UNCHANGED <<inputs, device, cfg, host, client, requests, resp>>

\* main.rs:140: let info: serde_json::Value = resp.json()?;
StatusJson ==
    /\ pc = "status_json"
    /\ IF resp.body.valid
       THEN /\ info' = json(resp.body)
            /\ pc' = "status_print"
            /\ UNCHANGED <<err, exit>>
       ELSE /\ Return(Error("ResponseDecodeFailure", <<>>, 0))
            /\ UNCHANGED info
    /\ UNCHANGED <<inputs, device, cfg, host, client, requests, resp, stdout>>

\* main.rs:142-203 and main.rs:55: print the header and the lines, return Ok.
StatusPrint ==
    /\ pc = "status_print"
    /\ stdout' = stdout \o StatusOutput(info)
    /\ Return(NoError)
    /\ UNCHANGED <<inputs, device, cfg, host, client, requests, resp, info>>

RestartSendTwice ==
    /\ pc = "dispatch"
    /\ command = "Restart"
    /\ requests' = requests \o << Request("POST", host.val \o "/api/system/restart"),
                                  Request("POST", host.val \o "/api/system/restart") >>
    /\ \E d \in SampleDevices :
         /\ device' = d
         /\ IF d.reach
            THEN /\ resp' = [some |-> TRUE, status |-> d.status, body |-> d.body]
                 /\ pc' = "restart_check"
                 /\ UNCHANGED <<err, exit>>
            ELSE /\ Return(Error("TransportFailure", <<>>, 0))
                 /\ UNCHANGED resp
    /\ UNCHANGED <<inputs, cfg, host, client, info, stdout>>

\* main.rs:207-208: client.post(&url).send()?
RestartSend ==
    /\ pc = "dispatch"
    /\ command = "Restart"
    /\ requests' = Append(requests, Request("POST", host.val \o "/api/system/restart"))
    /\ \E d \in SampleDevices :
         /\ device' = d
         /\ IF d.reach
            THEN /\ resp' = [some |-> TRUE, status |-> d.status, body |-> d.body]
                 /\ pc' = "restart_check"
                 /\ UNCHANGED <<err, exit>>
            ELSE /\ Return(Error("TransportFailure", <<>>, 0))
                 /\ UNCHANGED resp
    /\ UNCHANGED <<inputs, cfg, host, client, info, stdout>>

RestartCheckUnchecked ==
    /\ pc = "restart_check"
    /\ stdout' = Append(stdout, Confirmation)
    /\ Return(NoError)
    /\ UNCHANGED <<inputs, device, cfg, host, client, requests, resp, info>>

\* main.rs:209-213 and main.rs:55: bail on a status that is not a success,
\* else print the confirmation and return Ok.
RestartCheck ==
    /\ pc = "restart_check"
    /\ IF ~is_success(resp.status)
       THEN /\ Return(Error("HttpStatusFailure", <<"Restart", "failed", "with", "status">>, resp.status))
            /\ UNCHANGED stdout
       ELSE /\ stdout' = Append(stdout, Confirmation)
            /\ Return(NoError)
    /\ UNCHANGED <<inputs, device, cfg, host, client, requests, resp, info>>

Next ==
    \/ LoadConfig
    \/ ResolveHost
    \/ BuildClient
    \/ StatusSend
    \/ StatusCheck
    \/ StatusJson
    \/ StatusPrint
    \/ RestartSend
    \/ RestartCheck

----------------------------------------------------------------------------
(* Specifications *)

NoDevice == Device(FALSE, 0, NotJson)

Start ==
    /\ pc = "load_config"
    /\ device = NoDevice
    /\ cfg = AppConfig(None)
    /\ host = None
    /\ client = FALSE
    /\ requests = <<>>
    /\ resp = NoResponse
    /\ info = NoInfo
    /\ stdout = <<>>
    /\ err = NoError
    /\ exit = -1

Init ==
    /\ cliHost \in CliHosts
    /\ command \in Commands
    /\ envUrl \in EnvUrls
    /\ cfgFile \in CfgFiles
    /\ Start

\* One invocation of the status command, whose address comes from --host.
InitDoc ==
    /\ cliHost = Some("http://cli")
    /\ command = "Status"
    /\ envUrl = None
    /\ cfgFile = CfgFile("absent", "")
    /\ Start

\* The status command against a device that may answer with any bounded document.
NextDoc ==
    \/ LoadConfig
    \/ ResolveHost
    \/ BuildClient
    \/ StatusSendDoc
    \/ StatusCheck
    \/ StatusJson
    \/ StatusPrint

Spec == Init /\ [][Next]_vars

SpecDoc == InitDoc /\ [][NextDoc]_vars

----------------------------------------------------------------------------
(* Properties *)

\* resolve_host has returned.
Resolved == pc \notin {"load_config", "resolve_host"}

\* A request was handed to send() and the device answered it.
Answered == requests # <<>> /\ device.reach

Failed == pc = "done" /\ exit # 0 /\ exit # -1 /\ err.kind # "None"

Printed(line) == \E i \in 1..Len(stdout) : stdout[i] = line

\* C1: whenever --host is present, resolve_host succeeds and the resolved
\* address is exactly the --host string, whatever BITAXE_URL and the config
\* file hold.
C1_OverrideWins ==
    (cliHost.some /\ Resolved) =>
        /\ host = Some(cliHost.val)
        /\ err.kind # "NoHostConfigured"

C1_Witness ==
    /\ Resolved
    /\ cliHost = Some("http://cli")
    /\ envUrl = Some("http://env")
    /\ cfgFile = CfgFile("host", "http://file")
    /\ host = Some("http://cli")

\* C2: without --host, a non-empty BITAXE_URL is the resolved address whatever
\* the config file holds; an empty BITAXE_URL counts as absent, and the
\* resolution falls through to the host of the config file.
C2_EnvSecond ==
    (~cliHost.some /\ Resolved) =>
        /\ (envUrl.some /\ envUrl.val # "") => host = Some(envUrl.val)
        /\ (envUrl.some /\ envUrl.val = "") =>
              /\ host = cfg.host
              /\ cfgFile.state = "host" => host = Some(cfgFile.host)
              /\ ~cfg.host.some => err.kind = "NoHostConfigured"

C2_Witness ==
    /\ Resolved
    /\ cliHost = None
    /\ envUrl = Some("http://env")
    /\ cfgFile = CfgFile("host", "http://file")
    /\ host = Some("http://env")

\* C3: the resolved address is never empty, so no request goes to an empty
\* address.
C3_AddressNonEmpty == host.some => host.val # ""

\* C4: a config file that is present and malformed ends the invocation in a
\* ConfigMalformed error with a non-zero exit, before any address resolution.
C4_MalformedConfigFails ==
    (cfgFile.state \in {"unparsable", "badshape"} /\ pc # "load_config") =>
        /\ pc = "done"
        /\ err.kind = "ConfigMalformed"
        /\ exit # 0
        /\ host = None

\* C5: with no --host, BITAXE_URL unset or empty, and no host from the config
\* file, the invocation fails with NoHostConfigured, the message names --host,
\* BITAXE_URL and the config file, the exit code is not zero and no request
\* is issued.
C5_NoHostConfigured ==
    ( /\ Resolved
      /\ ~cliHost.some
      /\ (~envUrl.some \/ envUrl.val = "")
      /\ cfgFile.state \in {"nohome", "absent", "nohost"} ) =>
        /\ Failed
        /\ err.kind = "NoHostConfigured"
        /\ \A w \in {"--host", "BITAXE_URL", "~/.config/bitaxe-cli/config.toml"} :
              \E i \in 1..Len(err.msg) : err.msg[i] = w
        /\ host = None
        /\ requests = <<>>

C5_Witness ==
    /\ pc = "done"
    /\ cliHost = None
    /\ envUrl = Some("")
    /\ cfgFile.state = "nohost"
    /\ err.kind = "NoHostConfigured"
    /\ exit = 1

\* The one request of a command to an address.
RequestOf(cmd, address) ==
    IF cmd = "Status"
    THEN Request("GET", address \o "/api/system/info")
    ELSE Request("POST", address \o "/api/system/restart")

\* C6 as stated: at most one request, and exactly one, the command's own,
\* whenever the address resolution succeeded.
C6_ExactlyOneRequest ==
    /\ Len(requests) <= 1
    /\ (pc = "done" /\ host.some) => requests = <<RequestOf(command, host.val)>>

\* C6 amended: at most one request, of the command's method and path, and
\* exactly one whenever the address resolution succeeded and the HTTP client
\* was built; none otherwise, and none after a failure.
C6_OneRequestOnceClientBuilt ==
    /\ Len(requests) <= 1
    /\ requests # <<>> => (host.some /\ client /\ requests = <<RequestOf(command, host.val)>>)
    /\ (pc = "done" /\ host.some /\ client) => Len(requests) = 1
    /\ (pc = "done" /\ ~(host.some /\ client)) => requests = <<>>

C6_Witness ==
    /\ Failed
    /\ command = "Restart"
    /\ err.kind = "HttpStatusFailure"
    /\ requests = <<Request("POST", "http://env/api/system/restart")>>

\* C7: a restart answered with a status outside 200..299 ends in
\* HttpStatusFailure carrying that status, with a non-zero exit and without
\* the confirmation; the confirmation is printed only after a 2xx answer.
C7_RestartNon2xx ==
    /\ (command = "Restart" /\ pc = "done" /\ Answered /\ ~(device.status \in 200..299)) =>
          /\ Failed
          /\ err.kind = "HttpStatusFailure"
          /\ err.code = device.status
          /\ ~Printed(Confirmation)
    /\ Printed(Confirmation) =>
          (command = "Restart" /\ Answered /\ device.status \in 200..299)

C7_Witness ==
    /\ command = "Restart"
    /\ pc = "done"
    /\ Answered
    /\ device.status = 503
    /\ err.code = 503
    /\ stdout = <<>>

\* C10: the status command prints nothing before a 2xx answer whose body
\* decoded as JSON; a transport failure, a non-2xx answer and a body that is
\* not JSON each end in their error, with a non-zero exit and nothing printed.
C10_StatusOutputAfterSuccess ==
    command = "Status" =>
        /\ stdout # <<>> => (Answered /\ device.status \in 200..299 /\ device.body.valid)
        /\ (pc = "done" /\ requests # <<>> /\ ~device.reach) =>
              (Failed /\ err.kind = "TransportFailure" /\ stdout = <<>>)
        /\ (pc = "done" /\ Answered /\ ~(device.status \in 200..299)) =>
              (Failed /\ err.kind = "HttpStatusFailure" /\ err.code = device.status /\ stdout = <<>>)
        /\ (pc = "done" /\ Answered /\ device.status \in 200..299 /\ ~device.body.valid) =>
              (Failed /\ err.kind = "ResponseDecodeFailure" /\ stdout = <<>>)

C10_Witness ==
    /\ command = "Status"
    /\ pc = "done"
    /\ Answered
    /\ device.status = 200
    /\ ~device.body.valid
    /\ err.kind = "ResponseDecodeFailure"
    /\ stdout = <<>>

----------------------------------------------------------------------------
(* Properties of the status report *)

\* The fields of the report in their declared order.
DeclaredOrder ==
    << "hostname", "hashRate", "bestDiff", "bestSessionDiff", "sharesAccepted",
       "sharesRejected", "temp", "vrTemp", "power", "voltage", "frequency",
       "coreVoltage", "coreVoltageActual", "wifiRSSI", "wifiStatus" >>

\* The JSON types each declared field accepts.
DeclaredTypes(k) ==
    IF k \in {"hostname", "wifiStatus"} THEN {"String"}
    ELSE IF k \in {"bestDiff", "bestSessionDiff"} THEN {"Number", "String"}
    ELSE {"Number"}

\* The document holds key k with a value of the declared kind (of a repeated
\* key, the last member is the one the document holds).
Present(body, k) ==
    /\ body.root = "Object"
    /\ \E i \in 1..Len(body.members) :
          /\ body.members[i].key = k
          /\ \A j \in (i + 1)..Len(body.members) : body.members[j].key # k
          /\ body.members[i].val.t \in DeclaredTypes(k)

ExpectedKeys(body) ==
    LET Test(k) == Present(body, k)
    IN  SelectSeq(DeclaredOrder, Test)

\* The keys of the data lines printed after the header.
DataKeys == [i \in 1..(Len(stdout) - 1) |-> stdout[i + 1].key]

DistinctKeys(members) ==
    \A i, j \in 1..Len(members) : members[i].key = members[j].key => i = j

Reverse(seq) == [i \in 1..Len(seq) |-> seq[Len(seq) + 1 - i]]

StatusSucceeded ==
    /\ command = "Status"
    /\ pc = "done"
    /\ Answered
    /\ device.status \in 200..299
    /\ device.body.valid

\* C8: the data lines are those of the declared fields the document holds
\* with a value of the declared kind, each once, in the declared order, and
\* the same lines whatever the order of the keys in the document.
C8_LinesInDeclaredOrder ==
    StatusSucceeded =>
        /\ stdout # <<>>
        /\ stdout[1] = Header
        /\ DataKeys = ExpectedKeys(device.body)
        /\ DistinctKeys(device.body.members) =>
              stdout = StatusOutput(json(Document(Reverse(device.body.members))))

C8_Witness ==
    /\ StatusSucceeded
    /\ Len(device.body.members) = 2
    /\ device.body.members[1].key = "temp"
    /\ device.body.members[2].key = "hashRate"
    /\ DataKeys = <<"hashRate", "temp">>

\* C9: whatever the decoded document (no members, a root that is not an
\* object, other keys, declared keys with a value of another kind), the status
\* command succeeds with exit code 0, prints the header, and prints no line
\* for a field that is missing or of another kind; the empty object gives the
\* header alone.
C9_MismatchIsAbsence ==
    StatusSucceeded =>
        /\ exit = 0
        /\ err = NoError
        /\ stdout # <<>>
        /\ stdout[1] = Header
        /\ \A i \in 1..Len(DeclaredOrder) :
              ~Present(device.body, DeclaredOrder[i]) =>
                  \A n \in 1..Len(stdout) : stdout[n].key # DeclaredOrder[i]
        /\ (device.body.root # "Object" \/ device.body.members = <<>>) => stdout = <<Header>>

C9_Witness ==
    /\ StatusSucceeded
    /\ exit = 0
    /\ device.body.members = <<Member("hostname", JInt(60000)), Member("hashRate", JString("up"))>>
    /\ stdout = <<Header>>

====
